---- MODULE Spec2Model ----
(***************************************************************************)
(* A model of the portal backend (src/server.js): an Express application   *)
(* whose handlers run SQL statements against one Postgres database through *)
(* a pg connection pool.                                                   *)
(*                                                                         *)
(* The state is the database (schema, the four tables, the SERIAL          *)
(* sequences, the clock behind now()), the upload requests in flight       *)
(* (each suspended at one of its awaits), the bootstrap request in flight, *)
(* and the response of the last request served by a one-statement handler. *)
(* One action is one continuation of a handler: the awaited statement      *)
(* executes and the handler runs to its next await or to its end.          *)
(***************************************************************************)
EXTENDS Integers, FiniteSets, Sequences, TLC

VARIABLES
    schema,           \* tables that exist, and whether materials.image_url exists
    tasks,            \* committed rows of table tasks
    labor,            \* committed rows of table labor
    materials,        \* committed rows of table materials
    material_images,  \* committed rows of table material_images
    seq,              \* last value handed out by each table's SERIAL sequence
    clock,            \* the database clock read by DEFAULT now()
    origin,           \* history: the route whose INSERT drew each materials id
    boot,             \* the POST /api/bootstrap request in flight
    up,               \* the POST /api/materials/upload requests in flight
    last              \* the last response of a one-statement handler

dbvars == <<schema, tasks, labor, materials, material_images, seq, clock, origin>>
rowvars == <<tasks, labor, materials, material_images>>
vars == <<schema, tasks, labor, materials, material_images, seq, clock, origin,
          boot, up, last>>

(***************************************************************************)
(* Bounds of the model.                                                    *)
(***************************************************************************)
MaxWrites == 1     \* one-statement inserts are admitted while fewer ids than this are drawn
MaxClock == 1      \* uploads are admitted while the clock is below this
MaxImages == 3     \* image rows of the stored tables the image query is run on

\* ids drawn so far from the sequences of the tables the routes insert into
Drawn == seq.tasks + seq.labor + seq.materials

(***************************************************************************)
(* JavaScript values of request fields, and SQL NULL.                      *)
(***************************************************************************)
Undefined == [t |-> "undefined"]
Null == [t |-> "null"]
Str(s) == [t |-> "string", v |-> s]
Num(n) == [t |-> "number", v |-> n]

\* JS `!v`
Falsy(v) == v \in {Undefined, Null, Str(""), Num(0)}
\* JS `v == null`
Nullish(v) == v \in {Undefined, Null}
\* JS destructuring default `{ f = d }`: applies to undefined only
Default(v, d) == IF v = Undefined THEN d ELSE v
\* pg sends an undefined parameter as NULL
Param(v) == IF v = Undefined THEN Null ELSE v

(***************************************************************************)
(* Schema and DDL of POST /api/bootstrap.                                  *)
(***************************************************************************)
Tables == {"tasks", "labor", "materials", "material_images"}

EmptySchema == [tables |-> {}, image_url |-> FALSE]
LegacySchema == [tables |-> Tables, image_url |-> FALSE]
FullSchema == [tables |-> Tables, image_url |-> TRUE]

\* what a statement gives back: whether it succeeded, and the schema after it
Res(ok, s) == [ok |-> ok, schema |-> s]

\* CREATE TABLE IF NOT EXISTS t (...): skipped when t exists; material_images
\* REFERENCES materials(id), which must exist by then
CreateTableIfNotExists(s, t) ==
    IF t \in s.tables THEN Res(TRUE, s)
    ELSE IF t = "material_images" /\ "materials" \notin s.tables THEN Res(FALSE, s)
    ELSE Res(TRUE, [s EXCEPT !.tables = @ \cup {t}])

\* the first query: four CREATE TABLE IF NOT EXISTS in one simple-query
\* message, which Postgres runs as one implicit transaction
CreateTables(s) ==
    LET r1 == CreateTableIfNotExists(s, "tasks")
        r2 == CreateTableIfNotExists(r1.schema, "labor")
        r3 == CreateTableIfNotExists(r2.schema, "materials")
        r4 == CreateTableIfNotExists(r3.schema, "material_images")
    IN  IF r1.ok /\ r2.ok /\ r3.ok /\ r4.ok THEN Res(TRUE, r4.schema)
        ELSE Res(FALSE, s)

\* a plausible slip: ADD COLUMN without IF NOT EXISTS fails on an existing column
AddColumnNoGuard(s) ==
    IF "materials" \notin s.tables \/ s.image_url THEN Res(FALSE, s)
    ELSE Res(TRUE, [s EXCEPT !.image_url = TRUE])

\* ALTER TABLE materials ADD COLUMN IF NOT EXISTS image_url TEXT
AddColumnIfNotExists(s) ==
    IF "materials" \notin s.tables THEN Res(FALSE, s)
    ELSE Res(TRUE, [s EXCEPT !.image_url = TRUE])

(***************************************************************************)
(* Responses.                                                              *)
(***************************************************************************)
NoData == <<>>

\* res.status(st).json({ ok: true, data })
JsonOk(st, data) == [status |-> st, kind |-> "json", ok |-> TRUE, data |-> data, error |-> ""]
\* res.status(st).json({ ok: false, error })
JsonErr(st, msg) == [status |-> st, kind |-> "json", ok |-> FALSE, data |-> NoData, error |-> msg]
\* res.status(404).send('No image')
Text(st, msg) == [status |-> st, kind |-> "text", ok |-> FALSE, data |-> NoData, error |-> msg]
\* res.set('Content-Type', mime); res.send(bytes)
Binary(mime, bytes) ==
    [status |-> 200, kind |-> "binary", ok |-> TRUE,
     data |-> <<[mime_type |-> mime, bytes |-> bytes]>>, error |-> ""]
\* the handler's promise rejected and nothing was sent by the handler
NoResponse == [status |-> 0, kind |-> "none", ok |-> FALSE, data |-> NoData, error |-> ""]

\* e.message of a failed statement: the connection is down, or the database
\* refuses the statement
Message(dbUp) == IF dbUp THEN "sql error" ELSE "connection error"

\* a request without parameters
NoParams == [none |-> TRUE]

\* Express's answer to a rejected handler promise: none (Express 4 leaves the
\* request open) or its own error page (Express 5)
Html(st) == [status |-> st, kind |-> "html", ok |-> FALSE, data |-> NoData, error |-> ""]
Unhandled == {NoResponse, Html(500)}

\* what is kept of a finished request: route, request, response, the
\* statements it issued, the connections it checked out of the pool and gave
\* back, and whether a database step failed
Finished(route, req, resp, issued, acquired, released, dbfail) ==
    [route |-> route, req |-> req, resp |-> resp, issued |-> issued,
     acquired |-> acquired, released |-> released, dbfail |-> dbfail]

\* a handler whose statements all go through pool.query, which checks a
\* connection out and back in around each statement
Served(route, req, resp, issued, dbfail) ==
    Finished(route, req, resp, issued, Len(issued), Len(issued), dbfail)

(***************************************************************************)
(* Rows and queries.                                                       *)
(***************************************************************************)
Max(S) == CHOOSE x \in S : \A y \in S : y <= x

\* ORDER BY id DESC
RECURSIVE OrderByIdDesc(_)
OrderByIdDesc(rows) ==
    IF rows = {} THEN <<>>
    ELSE LET top == CHOOSE r \in rows : \A q \in rows : q.id <= r.id
         IN  <<top>> \o OrderByIdDesc(rows \ {top})

\* a parameter bound to a NUMERIC column: numbers as they are, the text of a
\* multipart field cast by the database
Numeric(v) ==
    IF v = Str("2") THEN Num(2)
    ELSE IF v = Str("3") THEN Num(3)
    ELSE Param(v)

\* a GENERATED ALWAYS AS (a * b) STORED column
Product(a, b) ==
    IF Numeric(a).t = "number" /\ Numeric(b).t = "number"
    THEN Num(Numeric(a).v * Numeric(b).v) ELSE Null

TaskRow(id, title, status, amount) ==
    [id |-> id, title |-> Param(title), status |-> Param(status), amount |-> Param(amount)]

MaterialRow(id, item_name, category, quantity, unit_cost, image_url) ==
    [id |-> id, item_name |-> Param(item_name), category |-> Param(category),
     quantity |-> Numeric(quantity), unit_cost |-> Numeric(unit_cost),
     total |-> Product(quantity, unit_cost), image_url |-> Param(image_url)]

ImageRow(id, material_id, mime_type, bytes, created_at) ==
    [id |-> id, material_id |-> material_id, mime_type |-> mime_type,
     bytes |-> bytes, created_at |-> created_at]

\* a plausible slip: has_file computed from image_url instead of material_images
HasFileFromUrl(m, images) == m.image_url # Null

\* EXISTS (SELECT 1 FROM material_images mi WHERE mi.material_id = m.id)
HasFile(m, images) == \E mi \in images : mi.material_id = m.id

\* SELECT m.id, ..., m.image_url, EXISTS (...) AS has_file FROM materials m
\* ORDER BY m.id DESC
RECURSIVE SelectMaterials(_, _)
SelectMaterials(mats, images) ==
    IF mats = {} THEN <<>>
    ELSE LET m == CHOOSE r \in mats : \A q \in mats : q.id <= r.id
         IN  <<[id |-> m.id, item_name |-> m.item_name, category |-> m.category,
                quantity |-> m.quantity, unit_cost |-> m.unit_cost, total |-> m.total,
                image_url |-> m.image_url, has_file |-> HasFile(m, images)]>>
             \o SelectMaterials(mats \ {m}, images)

\* a plausible slip: ORDER BY created_at ASC serves the oldest image
SelectOldestImage(images, id) ==
    LET mine == {mi \in images : mi.material_id = id}
    IN  {mi \in mine : \A o \in mine : mi.created_at <= o.created_at}

\* SELECT mime_type, bytes FROM material_images WHERE material_id = $1
\* ORDER BY created_at DESC LIMIT 1: the rows the database may return first
\* (any one of those with the greatest created_at)
SelectLatestImage(images, id) ==
    LET mine == {mi \in images : mi.material_id = id}
    IN  {mi \in mine : \A o \in mine : o.created_at <= mi.created_at}

(***************************************************************************)
(* Request fields the model draws from.                                    *)
(***************************************************************************)
Titles == {Undefined, Str(""), Str("Paint wall")}
Statuses == {Undefined, Str("done")}
Amounts == {Undefined}
TaskBodies == [title : Titles, status : Statuses, amount : Amounts]

\* a complete JSON body of POST /api/materials, and the bodies that differ
\* from it in one field
MaterialBody(quantity) ==
    [item_name |-> Str("sand"), category |-> Undefined, quantity |-> quantity,
     unit_cost |-> Num(3)]
ValidMaterialBodies == {MaterialBody(Num(0)), MaterialBody(Num(2))}
MaterialBodies ==
    ValidMaterialBodies
    \cup {[MaterialBody(Num(2)) EXCEPT !.item_name = v] : v \in {Undefined, Str("")}}
    \cup {[MaterialBody(Num(2)) EXCEPT !.quantity = v] : v \in {Undefined, Null}}
    \cup {[MaterialBody(Num(2)) EXCEPT !.unit_cost = v] : v \in {Undefined, Null}}

WithUrl(body, url) ==
    [item_name |-> body.item_name, category |-> body.category,
     quantity |-> body.quantity, unit_cost |-> body.unit_cost, image_url |-> url]
ValidUrlBodies == {WithUrl(MaterialBody(Num(2)), Str("http://x/y.png"))}
UrlBodies ==
    {WithUrl(b, Str("http://x/y.png")) : b \in MaterialBodies \ {MaterialBody(Num(0))}}
    \cup {WithUrl(MaterialBody(Num(2)), v) : v \in {Undefined, Str("")}}

\* req.file as multer leaves it: undefined, or mimetype and buffer
File(mime, buf) == [t |-> "file", mimetype |-> mime, buffer |-> buf]
Files == {Undefined, File("image/png", "png-bytes")}

(***************************************************************************)
(* Bootstrap: POST /api/bootstrap, two awaited queries.                    *)
(***************************************************************************)
\* first await: the CREATE TABLE batch
BootstrapCreate(dbUp) ==
    /\ boot.pc = "idle"
    /\ LET r == CreateTables(schema)
       IN  IF dbUp /\ r.ok
           THEN /\ schema' = r.schema
                /\ boot' = [pc |-> "alter"]
                /\ last' = last
           ELSE /\ schema' = schema
                /\ boot' = [pc |-> "idle"]
                /\ last' = Served("POST /api/bootstrap", NoParams,
                                  JsonErr(500, Message(dbUp)), <<"CREATE TABLE">>, TRUE)
    /\ UNCHANGED <<tasks, labor, materials, material_images, seq, clock, origin, up>>

\* second await: the ALTER TABLE, then res.json({ ok: true })
BootstrapAlter(dbUp) ==
    /\ boot.pc = "alter"
    /\ boot' = [pc |-> "idle"]
    /\ LET r == AddColumnIfNotExists(schema)
       IN  IF dbUp /\ r.ok
           THEN /\ schema' = r.schema
                /\ last' = Served("POST /api/bootstrap", NoParams,
                                  JsonOk(200, NoData), <<"CREATE TABLE", "ALTER TABLE">>, FALSE)
           ELSE /\ schema' = schema
                /\ last' = Served("POST /api/bootstrap", NoParams,
                                  JsonErr(500, Message(dbUp)),
                                  <<"CREATE TABLE", "ALTER TABLE">>, TRUE)
    /\ UNCHANGED <<tasks, labor, materials, material_images, seq, clock, origin, up>>

(***************************************************************************)
(* Tasks.                                                                  *)
(***************************************************************************)
\* GET /api/tasks
GetTasks(dbUp) ==
    /\ last' = IF dbUp /\ "tasks" \in schema.tables
               THEN Served("GET /api/tasks", NoParams,
                           JsonOk(200, OrderByIdDesc(tasks)), <<"SELECT tasks">>, FALSE)
               ELSE Served("GET /api/tasks", NoParams,
                           JsonErr(500, Message(dbUp)), <<"SELECT tasks">>, TRUE)
    /\ UNCHANGED <<dbvars, rowvars, boot, up>>

\* a plausible slip: the title check left out
TitleCheckMissing(body) == FALSE

\* if (!title) return res.status(400)...
TitleMissing(body) == Falsy(body.title)

\* POST /api/tasks, title missing: answered before anything is awaited
PostTasksRejected(body) ==
    /\ TitleMissing(body)
    /\ last' = Served("POST /api/tasks", [body |-> body],
                      JsonErr(400, "title is required"), <<>>, FALSE)
    /\ UNCHANGED <<dbvars, rowvars, boot, up>>

\* POST /api/tasks, title present: the INSERT is awaited
PostTasks(body, dbUp) ==
    LET title == body.title
        status == Default(body.status, Str("todo"))
        amount == Default(body.amount, Num(0))
        id == seq.tasks + 1
        row == TaskRow(id, title, status, amount)
    IN  /\ ~TitleMissing(body)
        /\ Drawn < MaxWrites
        /\ IF dbUp /\ "tasks" \in schema.tables /\ row.title # Null
           THEN /\ tasks' = tasks \cup {row}
                /\ seq' = [seq EXCEPT !.tasks = id]
                /\ last' = Served("POST /api/tasks", [body |-> body], JsonOk(201, <<row>>),
                                  <<"INSERT tasks">>, FALSE)
           ELSE /\ last' = Served("POST /api/tasks", [body |-> body],
                                  JsonErr(500, Message(dbUp)), <<"INSERT tasks">>, TRUE)
                /\ UNCHANGED <<tasks, seq>>
        /\ UNCHANGED <<schema, labor, materials, material_images, clock, origin, boot, up>>

(***************************************************************************)
(* Labor: POST /api/labor and GET /api/labor.                              *)
(***************************************************************************)
LaborBody ==
    [worker_name |-> Str("Ana"), role |-> Undefined, hours |-> Num(8), rate |-> Num(50)]
LaborBodies ==
    {LaborBody}
    \cup {[LaborBody EXCEPT !.worker_name = v] : v \in {Undefined, Str("")}}
    \cup {[LaborBody EXCEPT !.hours = v] : v \in {Undefined, Num(0)}}
    \cup {[LaborBody EXCEPT !.rate = v] : v \in {Undefined, Num(0)}}

LaborRow(id, worker_name, role, hours, rate) ==
    [id |-> id, worker_name |-> Param(worker_name), role |-> Param(role),
     hours |-> Param(hours), rate |-> Param(rate), total |-> Product(hours, rate)]

\* a plausible slip: the null check of the materials routes, which lets 0 pass
LaborFieldNullish(body) ==
    Falsy(body.worker_name) \/ Nullish(body.hours) \/ Nullish(body.rate)

\* the presence check of POST /labor: falsy values, 0 included, are rejected
LaborFieldMissing(body) ==
    Falsy(body.worker_name) \/ Falsy(body.hours) \/ Falsy(body.rate)

\* GET /api/labor
GetLabor(dbUp) ==
    /\ last' = IF dbUp /\ "labor" \in schema.tables
               THEN Served("GET /api/labor", NoParams,
                           JsonOk(200, OrderByIdDesc(labor)), <<"SELECT labor">>, FALSE)
               ELSE Served("GET /api/labor", NoParams,
                           JsonErr(500, Message(dbUp)), <<"SELECT labor">>, TRUE)
    /\ UNCHANGED <<dbvars, rowvars, boot, up>>

\* POST /api/labor, a field missing
PostLaborRejected(body) ==
    /\ LaborFieldMissing(body)
    /\ last' = Served("POST /api/labor", [body |-> body],
                      JsonErr(400, "worker_name, hours, rate required"), <<>>, FALSE)
    /\ UNCHANGED <<dbvars, rowvars, boot, up>>

\* POST /api/labor, fields present: the INSERT is awaited
PostLabor(body, dbUp) ==
    LET id == seq.labor + 1
        row == LaborRow(id, body.worker_name, body.role, body.hours, body.rate)
    IN  /\ ~LaborFieldMissing(body)
        /\ Drawn < MaxWrites
        /\ IF dbUp /\ "labor" \in schema.tables
           THEN /\ labor' = labor \cup {row}
                /\ seq' = [seq EXCEPT !.labor = id]
                /\ last' = Served("POST /api/labor", [body |-> body], JsonOk(201, <<row>>),
                                  <<"INSERT labor">>, FALSE)
           ELSE /\ last' = Served("POST /api/labor", [body |-> body],
                                  JsonErr(500, Message(dbUp)), <<"INSERT labor">>, TRUE)
                /\ UNCHANGED <<labor, seq>>
        /\ UNCHANGED <<schema, tasks, materials, material_images, clock, origin, boot, up>>

(***************************************************************************)
(* Materials, one statement each.                                          *)
(***************************************************************************)
\* GET /api/materials
GetMaterials(dbUp) ==
    /\ last' = IF /\ dbUp
                  /\ {"materials", "material_images"} \subseteq schema.tables
                  /\ schema.image_url
               THEN Served("GET /api/materials", NoParams,
                           JsonOk(200, SelectMaterials(materials, material_images)),
                           <<"SELECT materials">>, FALSE)
               ELSE Served("GET /api/materials", NoParams,
                           JsonErr(500, Message(dbUp)), <<"SELECT materials">>, TRUE)
    /\ UNCHANGED <<dbvars, rowvars, boot, up>>

\* if (!item_name || quantity == null || unit_cost == null)
MaterialFieldMissing(body) ==
    Falsy(body.item_name) \/ Nullish(body.quantity) \/ Nullish(body.unit_cost)

\* POST /api/materials, a field missing
PostMaterialsRejected(body) ==
    /\ MaterialFieldMissing(body)
    /\ last' = Served("POST /api/materials", [body |-> body],
                      JsonErr(400, "item_name, quantity, unit_cost required"), <<>>, FALSE)
    /\ UNCHANGED <<dbvars, rowvars, boot, up>>

\* POST /api/materials, fields present: the INSERT is awaited
PostMaterials(body, dbUp) ==
    LET id == seq.materials + 1
        row == MaterialRow(id, body.item_name, body.category, body.quantity,
                           body.unit_cost, Null)
    IN  /\ ~MaterialFieldMissing(body)
        /\ Drawn < MaxWrites
        /\ IF dbUp /\ "materials" \in schema.tables
           THEN /\ materials' = materials \cup {row}
                /\ seq' = [seq EXCEPT !.materials = id]
                /\ origin' = origin \cup {<<id, "POST /api/materials">>}
                /\ last' = Served("POST /api/materials", [body |-> body],
                                  JsonOk(201, <<row>>), <<"INSERT materials">>, FALSE)
           ELSE /\ last' = Served("POST /api/materials", [body |-> body],
                                  JsonErr(500, Message(dbUp)), <<"INSERT materials">>, TRUE)
                /\ UNCHANGED <<materials, seq, origin>>
        /\ UNCHANGED <<schema, tasks, labor, material_images, clock, boot, up>>

\* if (!image_url || !item_name || quantity == null || unit_cost == null)
UrlFieldMissing(body) == Falsy(body.image_url) \/ MaterialFieldMissing(body)

\* POST /api/materials/url, a field missing
PostMaterialsUrlRejected(body) ==
    /\ UrlFieldMissing(body)
    /\ last' = Served("POST /api/materials/url", [body |-> body],
                      JsonErr(400, "image_url, item_name, quantity, unit_cost required"),
                      <<>>, FALSE)
    /\ UNCHANGED <<dbvars, rowvars, boot, up>>

\* POST /api/materials/url, fields present: the INSERT is awaited
PostMaterialsUrl(body, dbUp) ==
    LET id == seq.materials + 1
        row == MaterialRow(id, body.item_name, body.category, body.quantity,
                           body.unit_cost, body.image_url)
    IN  /\ ~UrlFieldMissing(body)
        /\ Drawn < MaxWrites
        /\ IF dbUp /\ "materials" \in schema.tables /\ schema.image_url
           THEN /\ materials' = materials \cup {row}
                /\ seq' = [seq EXCEPT !.materials = id]
                /\ origin' = origin \cup {<<id, "POST /api/materials/url">>}
                /\ last' = Served("POST /api/materials/url", [body |-> body],
                                  JsonOk(201, <<row>>), <<"INSERT materials">>, FALSE)
           ELSE /\ last' = Served("POST /api/materials/url", [body |-> body],
                                  JsonErr(500, Message(dbUp)), <<"INSERT materials">>, TRUE)
                /\ UNCHANGED <<materials, seq, origin>>
        /\ UNCHANGED <<schema, tasks, labor, material_images, clock, boot, up>>

\* GET /api/materials/:id/image
GetImage(id, dbUp) ==
    /\ \E pick \in IF SelectLatestImage(material_images, id) = {}
                   THEN {Null} ELSE SelectLatestImage(material_images, id) :
         last' = IF ~(dbUp /\ "material_images" \in schema.tables)
                 THEN Served("GET /api/materials/:id/image", [id |-> id],
                             JsonErr(500, Message(dbUp)), <<"SELECT material_images">>, TRUE)
                 ELSE IF pick = Null
                 THEN Served("GET /api/materials/:id/image", [id |-> id],
                             Text(404, "No image"), <<"SELECT material_images">>, FALSE)
                 ELSE Served("GET /api/materials/:id/image", [id |-> id],
                             Binary(pick.mime_type, pick.bytes),
                             <<"SELECT material_images">>, FALSE)
    /\ UNCHANGED <<dbvars, rowvars, boot, up>>

(***************************************************************************)
(* POST /api/materials/upload: a dedicated connection and a transaction.   *)
(***************************************************************************)
Uploads == {"u1", "u2"}

\* a complete multipart body (text fields are strings, or absent), and the
\* bodies that differ from it in one field
UploadBody ==
    [item_name |-> Str("sand"), category |-> Undefined, quantity |-> Str("2"),
     unit_cost |-> Str("3")]
UploadBodies ==
    {UploadBody}
    \cup {[UploadBody EXCEPT !.item_name = v] : v \in {Undefined, Str("")}}
    \cup {[UploadBody EXCEPT !.quantity = Undefined], [UploadBody EXCEPT !.unit_cost = Undefined]}

NoBody ==
    [item_name |-> Undefined, category |-> Undefined, quantity |-> Undefined,
     unit_cost |-> Undefined]

\* no upload in this slot
Idle ==
    [pc |-> "idle", body |-> NoBody, file |-> Undefined, held |-> FALSE,
     acquired |-> 0, released |-> 0, issued |-> <<>>, dbfail |-> FALSE, error |-> "",
     now |-> 0, material |-> <<>>, image |-> <<>>]

\* the two checks before pool.connect()
UploadFieldMissing(body, file) == MaterialFieldMissing(body) \/ Falsy(file)

UploadError(body) ==
    IF MaterialFieldMissing(body) THEN "item_name, quantity, unit_cost required"
    ELSE "file is required"

\* the request fails validation: answered at once, nothing awaited
UploadRejected(body, file) ==
    /\ UploadFieldMissing(body, file)
    /\ last' = Finished("POST /api/materials/upload", [body |-> body, file |-> file],
                        JsonErr(400, UploadError(body)), <<>>, 0, 0, FALSE)
    /\ UNCHANGED <<dbvars, rowvars, boot, up>>

\* the request passes validation and awaits pool.connect()
UploadStart(r, body, file) ==
    /\ up[r].pc = "idle"
    /\ ~UploadFieldMissing(body, file)
    /\ clock < MaxClock
    /\ up' = [up EXCEPT ![r] = [Idle EXCEPT !.pc = "connect", !.body = body, !.file = file]]
    /\ UNCHANGED <<dbvars, rowvars, boot, last>>

\* client.release()
Release(u) == [u EXCEPT !.held = FALSE, !.released = @ + 1]

\* a plausible slip: release() after the try/catch instead of in finally, so
\* that a throwing ROLLBACK skips it
FinallySkipped(u, threw) == IF threw THEN u ELSE Release(u)

\* finally { client.release() }
Finally(u, threw) == Release(u)

\* the handler has ended: its outcome is kept and the slot is free again
UploadEnds(r, u, resp) ==
    /\ last' = Finished("POST /api/materials/upload", [body |-> u.body, file |-> u.file],
                        resp, u.issued, u.acquired, u.released, u.dbfail)
    /\ up' = [up EXCEPT ![r] = Idle]

\* await pool.connect(): outside the try, a rejection leaves the handler
UploadConnect(r, dbUp) ==
    /\ up[r].pc = "connect"
    /\ IF dbUp
       THEN /\ up' = [up EXCEPT ![r].pc = "begin", ![r].held = TRUE, ![r].acquired = @ + 1]
            /\ last' = last
       ELSE \E resp \in Unhandled : UploadEnds(r, [up[r] EXCEPT !.dbfail = TRUE], resp)
    /\ UNCHANGED <<dbvars, rowvars, boot>>

\* a statement inside the try threw: control is in the catch block, which
\* awaits the ROLLBACK
Caught(u, statement, dbUp) ==
    [u EXCEPT !.pc = "rollback", !.dbfail = TRUE, !.error = Message(dbUp),
              !.issued = Append(@, statement)]

\* await client.query('BEGIN'); now() is the transaction's start time
UploadBegin(r, dbUp) ==
    /\ up[r].pc = "begin"
    /\ IF dbUp
       THEN /\ up' = [up EXCEPT ![r].pc = "insert_material", ![r].now = clock,
                                ![r].issued = Append(@, "BEGIN")]
            /\ clock' = clock + 1
       ELSE /\ up' = [up EXCEPT ![r] = Caught(up[r], "BEGIN", dbUp)]
            /\ clock' = clock
    /\ UNCHANGED <<schema, rowvars, seq, origin, boot, last>>

\* await client.query('INSERT INTO materials ... RETURNING *'): the row is
\* pending in the transaction; the sequence value is drawn for good
UploadInsertMaterial(r, dbUp) ==
    LET u == up[r]
        id == seq.materials + 1
        row == MaterialRow(id, u.body.item_name, u.body.category,
                           IF Nullish(u.body.unit_cost) THEN Null ELSE u.body.quantity,
                           u.body.unit_cost, Null)
    IN  /\ u.pc = "insert_material"
        /\ IF dbUp /\ "materials" \in schema.tables
           THEN /\ up' = [up EXCEPT ![r].pc = "update_material", ![r].material = <<row>>,
                                    ![r].issued = Append(@, "INSERT materials")]
                /\ seq' = [seq EXCEPT !.materials = id]
                /\ origin' = origin \cup {<<id, "POST /api/materials/upload">>}
           ELSE /\ up' = [up EXCEPT ![r] = Caught(u, "INSERT materials", dbUp)]
                /\ UNCHANGED <<seq, origin>>
        /\ UNCHANGED <<schema, rowvars, clock, boot, last>>

\* await client.query('UPDATE materials SET ... WHERE id=$5 RETURNING *'): the
\* row just inserted, seen inside the transaction, set to the request's fields
UploadUpdateMaterial(r, dbUp) ==
    LET u == up[r]
        id == u.material[1].id
        row == MaterialRow(id, u.body.item_name, u.body.category, u.body.quantity,
                           u.body.unit_cost, u.material[1].image_url)
    IN  /\ u.pc = "update_material"
        /\ IF dbUp /\ "materials" \in schema.tables
           THEN up' = [up EXCEPT ![r].pc = "insert_image", ![r].material = <<row>>,
                                 ![r].issued = Append(@, "UPDATE materials")]
           ELSE up' = [up EXCEPT ![r] = Caught(u, "UPDATE materials", dbUp)]
        /\ UNCHANGED <<dbvars, rowvars, boot, last>>

\* a plausible slip: the image attached to the newest committed material
\* instead of the row the transaction has just inserted
ImageOwnerNewestCommitted(u) ==
    IF materials = {} THEN u.material[1].id ELSE Max({m.id : m \in materials})

\* material2.rows[0].id
ImageOwner(u) == u.material[1].id

\* await client.query('INSERT INTO material_images ...')
UploadInsertImage(r, dbUp) ==
    LET u == up[r]
        id == seq.material_images + 1
        row == ImageRow(id, ImageOwner(u), u.file.mimetype, u.file.buffer, u.now)
    IN  /\ u.pc = "insert_image"
        /\ IF dbUp /\ "material_images" \in schema.tables
           THEN /\ up' = [up EXCEPT ![r].pc = "commit", ![r].image = <<row>>,
                                    ![r].issued = Append(@, "INSERT material_images")]
                /\ seq' = [seq EXCEPT !.material_images = id]
           ELSE /\ up' = [up EXCEPT ![r] = Caught(u, "INSERT material_images", dbUp)]
                /\ seq' = seq
        /\ UNCHANGED <<schema, rowvars, clock, origin, boot, last>>

\* a plausible slip: the material inserted through pool.query (autocommit)
\* instead of the transaction's client, so that a ROLLBACK leaves it behind
RolledBackAutocommit(u) == {u.material[i] : i \in 1..Len(u.material)}

\* what a ROLLBACK leaves of the transaction's pending rows: nothing
RolledBack(u) == {}

\* await client.query('COMMIT'); res.status(201).json(...); finally release
UploadCommit(r, dbUp) ==
    LET u == up[r]
        done == [u EXCEPT !.issued = Append(@, "COMMIT")]
    IN  /\ u.pc = "commit"
        /\ IF dbUp
           THEN /\ materials' = materials \cup {u.material[1]}
                /\ material_images' = material_images \cup {u.image[1]}
                /\ UploadEnds(r, Finally(done, FALSE), JsonOk(201, u.material))
           ELSE /\ up' = [up EXCEPT ![r] = Caught(u, "COMMIT", dbUp)]
                /\ UNCHANGED <<materials, material_images, last>>
        /\ UNCHANGED <<schema, tasks, labor, seq, clock, origin, boot>>

\* catch: await client.query('ROLLBACK'); res.status(500).json(...); finally
\* release.  The pending rows are gone either way: rolled back, or dropped
\* by the database with the connection the ROLLBACK could not reach.  When
\* the ROLLBACK throws, the rejection leaves the handler after the finally.
UploadRollback(r, dbUp) ==
    LET u == [up[r] EXCEPT !.issued = Append(@, "ROLLBACK")]
    IN  /\ up[r].pc = "rollback"
        /\ materials' = materials \cup RolledBack(u)
        /\ IF dbUp
           THEN UploadEnds(r, Finally(u, FALSE), JsonErr(500, u.error))
           ELSE \E resp \in Unhandled : UploadEnds(r, Finally(u, TRUE), resp)
        /\ UNCHANGED <<schema, tasks, labor, material_images, seq, clock, origin, boot>>

(***************************************************************************)
(* The program.                                                            *)
(***************************************************************************)
Init ==
    /\ schema \in {EmptySchema, LegacySchema, FullSchema}
    /\ tasks = {} /\ labor = {} /\ materials = {} /\ material_images = {}
    /\ seq = [tasks |-> 0, labor |-> 0, materials |-> 0, material_images |-> 0]
    /\ clock = 0
    /\ origin = {}
    /\ boot = [pc |-> "idle"]
    /\ up = [r \in Uploads |-> Idle]
    /\ last = Served("GET /api/health", NoParams, JsonOk(200, NoData), <<>>, FALSE)

\* the steps of the upload in slot r
Upload(r) ==
    \/ \E body \in UploadBodies, file \in Files : UploadStart(r, body, file)
    \/ \E dbUp \in BOOLEAN : UploadConnect(r, dbUp)
    \/ \E dbUp \in BOOLEAN : UploadBegin(r, dbUp)
    \/ \E dbUp \in BOOLEAN : UploadInsertMaterial(r, dbUp)
    \/ \E dbUp \in BOOLEAN : UploadUpdateMaterial(r, dbUp)
    \/ \E dbUp \in BOOLEAN : UploadInsertImage(r, dbUp)
    \/ \E dbUp \in BOOLEAN : UploadCommit(r, dbUp)
    \/ \E dbUp \in BOOLEAN : UploadRollback(r, dbUp)

Bootstrap == \E dbUp \in BOOLEAN : BootstrapCreate(dbUp) \/ BootstrapAlter(dbUp)

\* the materials routes and bootstrap, uploads served one at a time
Next ==
    \/ Bootstrap
    \/ \E dbUp \in BOOLEAN : GetMaterials(dbUp)
    \/ \E body \in MaterialBodies : PostMaterialsRejected(body)
    \/ \E body \in MaterialBodies, dbUp \in BOOLEAN : PostMaterials(body, dbUp)
    \/ \E body \in UrlBodies : PostMaterialsUrlRejected(body)
    \/ \E body \in UrlBodies, dbUp \in BOOLEAN : PostMaterialsUrl(body, dbUp)
    \/ \E id \in 1..(seq.materials + 1), dbUp \in BOOLEAN : GetImage(id, dbUp)
    \/ \E body \in UploadBodies, file \in Files : UploadRejected(body, file)
    \/ Upload("u1")

Spec == Init /\ [][Next]_vars

\* the tasks and labor routes and bootstrap
NextRecords ==
    \/ Bootstrap
    \/ \E dbUp \in BOOLEAN : GetTasks(dbUp)
    \/ \E body \in TaskBodies : PostTasksRejected(body)
    \/ \E body \in TaskBodies, dbUp \in BOOLEAN : PostTasks(body, dbUp)
    \/ \E dbUp \in BOOLEAN : GetLabor(dbUp)
    \/ \E body \in LaborBodies : PostLaborRejected(body)
    \/ \E body \in LaborBodies, dbUp \in BOOLEAN : PostLabor(body, dbUp)

SpecRecords == Init /\ [][NextRecords]_vars

\* the four routes that validate a request body before they write
NextPost ==
    \/ \E body \in TaskBodies : PostTasksRejected(body)
    \/ \E body \in TaskBodies, dbUp \in BOOLEAN : PostTasks(body, dbUp)
    \/ \E body \in MaterialBodies : PostMaterialsRejected(body)
    \/ \E body \in MaterialBodies, dbUp \in BOOLEAN : PostMaterials(body, dbUp)
    \/ \E body \in UrlBodies : PostMaterialsUrlRejected(body)
    \/ \E body \in UrlBodies, dbUp \in BOOLEAN : PostMaterialsUrl(body, dbUp)
    \/ \E body \in UploadBodies, file \in Files : UploadRejected(body, file)
    \/ Upload("u1")

SpecPost == Init /\ [][NextPost]_vars

\* the materials routes on a bootstrapped database, two uploads interleaved
InitTxn == Init /\ schema = FullSchema

NextTxn ==
    \/ \E body \in ValidMaterialBodies : PostMaterials(body, TRUE)
    \/ \E body \in ValidUrlBodies : PostMaterialsUrl(body, TRUE)
    \/ GetMaterials(TRUE)
    \/ \E r \in Uploads : Upload(r)

SpecTxn == InitTxn /\ [][NextTxn]_vars

\* the image route on a bootstrapped database that holds any image rows:
\* materials 1 and 2, and up to MaxImages images spread over them
Owners == {1, 2}
StoredFiles == {File("image/png", "png-bytes"), File("image/jpeg", "jpeg-bytes")}
StoredImages == [material_id : Owners, file : StoredFiles, created_at : 0..MaxClock]
Absent == [absent |-> TRUE]

InitQuery ==
    /\ schema = FullSchema
    /\ tasks = {} /\ labor = {}
    /\ materials = {MaterialRow(m, Str("sand"), Null, Num(2), Num(3), Null) : m \in Owners}
    /\ \E f \in [1..MaxImages -> StoredImages \cup {Absent}] :
         material_images =
           {ImageRow(i, f[i].material_id, f[i].file.mimetype, f[i].file.buffer,
                     f[i].created_at) : i \in {j \in 1..MaxImages : f[j] # Absent}}
    /\ seq = [tasks |-> 0, labor |-> 0, materials |-> Cardinality(Owners),
              material_images |-> MaxImages]
    /\ clock = MaxClock + 1
    /\ origin = {<<m, "POST /api/materials/upload">> : m \in Owners}
    /\ boot = [pc |-> "idle"]
    /\ up = [r \in Uploads |-> Idle]
    /\ last = Served("GET /api/health", NoParams, JsonOk(200, NoData), <<>>, FALSE)

NextQuery == \E id \in 1..(seq.materials + 1), dbUp \in BOOLEAN : GetImage(id, dbUp)

SpecQuery == InitQuery /\ [][NextQuery]_vars

(***************************************************************************)
(* Properties.                                                             *)
(***************************************************************************)
UploadRoute == "POST /api/materials/upload"
Uploaded(id) == <<id, UploadRoute>> \in origin
Ids(rows) == {row.id : row \in rows}
Owned(images) == {mi.material_id : mi \in images}
\* the rows pending in the transactions in flight
PendingMaterials == UNION {{up[r].material[i] : i \in 1..Len(up[r].material)} : r \in Uploads}
PendingImages == UNION {{up[r].image[i] : i \in 1..Len(up[r].image)} : r \in Uploads}
Listed == {last.resp.data[i] : i \in 1..Len(last.resp.data)}
ListedMaterials == last.route = "GET /api/materials" /\ last.resp.ok

\* C1: the upload is all-or-nothing.  In every committed state a material
\* whose id was drawn by an upload exists if and only if an image row
\* referencing it exists, and a listing by GET /materials never shows an
\* upload-created material without its file.
C1_UploadAllOrNothing ==
    /\ \A m \in materials : Uploaded(m.id) => m.id \in Owned(material_images)
    /\ \A mi \in material_images :
         Uploaded(mi.material_id) => mi.material_id \in Ids(materials)
    /\ ListedMaterials => \A row \in Listed : Uploaded(row.id) => row.has_file

\* an upload was rolled back after its material insert, another was
\* committed, and GET /materials has listed the result
C1_Witness ==
    /\ ListedMaterials
    /\ \E id \in 1..seq.materials :
         /\ Uploaded(id)
         /\ id \notin Ids(materials) \cup Ids(PendingMaterials)
    /\ \E row \in Listed : Uploaded(row.id) /\ row.id \in Ids(materials)

\* C2: the upload handler gives its connection back on every exit path.  A
\* finished upload has released exactly what it acquired (nothing when it
\* was rejected or could not connect, one connection otherwise), and an
\* upload in flight holds at most the one connection it has not released.
C2_ConnectionReleased ==
    /\ last.route = UploadRoute =>
         /\ last.released = last.acquired
         /\ last.acquired = (IF "BEGIN" \in {last.issued[i] : i \in 1..Len(last.issued)}
                             THEN 1 ELSE 0)
    /\ \A r \in Uploads :
         /\ up[r].released = 0
         /\ up[r].acquired = (IF up[r].held THEN 1 ELSE 0)
         /\ up[r].held <=> up[r].pc \notin {"idle", "connect"}

\* an upload whose ROLLBACK itself failed has finished
C2_Witness ==
    /\ last.route = UploadRoute
    /\ last.resp \in Unhandled
    /\ last.acquired = 1
    /\ last.issued[Len(last.issued)] = "ROLLBACK"

\* C3: every failed database operation ends the request with one HTTP 500
\* response {ok:false, error}, and no statement is issued twice.
C3_FailureIs500 ==
    last.dbfail =>
      /\ last.resp.status = 500 /\ last.resp.kind = "json" /\ ~last.resp.ok
      /\ \A i, j \in 1..Len(last.issued) : last.issued[i] = last.issued[j] => i = j

\* the body fields whose absence is a client-input error, route by route
TitleAbsent(req) == Falsy(req.body.title)
MaterialFieldsAbsent(req) ==
    Falsy(req.body.item_name) \/ Nullish(req.body.quantity) \/ Nullish(req.body.unit_cost)
ClientError ==
    \/ last.route = "POST /api/tasks" /\ TitleAbsent(last.req)
    \/ last.route = "POST /api/materials" /\ MaterialFieldsAbsent(last.req)
    \/ /\ last.route = "POST /api/materials/url"
       /\ MaterialFieldsAbsent(last.req) \/ Falsy(last.req.body.image_url)
    \/ /\ last.route = UploadRoute
       /\ MaterialFieldsAbsent(last.req) \/ last.req.file = Undefined

\* C4: a client-input error never touches the database.  A request of the
\* four validating routes with a required field missing is answered 400
\* {ok:false, error} with no statement issued and no connection acquired,
\* no request in flight on a connection is such a request, and the step that
\* answers 400 leaves every table as it was.
C4_ClientErrorNoDatabase ==
    /\ [](ClientError =>
            /\ last.resp.status = 400 /\ last.resp.kind = "json" /\ ~last.resp.ok
            /\ last.issued = <<>> /\ last.acquired = 0)
    /\ [](\A r \in Uploads :
            up[r].pc # "idle" =>
              ~(Falsy(up[r].body.item_name) \/ Nullish(up[r].body.quantity)
                \/ Nullish(up[r].body.unit_cost) \/ up[r].file = Undefined))
    /\ [][last' # last /\ last'.resp.status = 400 => UNCHANGED dbvars]_vars

\* an upload without a file was answered 400 while the tables hold rows
C4_Witness ==
    /\ last.route = UploadRoute
    /\ last.req.file = Undefined /\ ~MaterialFieldsAbsent(last.req)
    /\ last.resp.status = 400
    /\ materials # {} /\ material_images # {}

\* C5: GET /materials reports has_file exactly for the materials that an
\* image row references, whatever image_url is, and a material created by
\* POST /materials/url is listed with its image_url and has_file = false.
C5_HasFile ==
    ListedMaterials =>
      \A row \in Listed :
        /\ row.has_file <=> row.id \in Owned(material_images)
        /\ <<row.id, "POST /api/materials/url">> \in origin =>
             row.image_url # Null /\ ~row.has_file

\* a listing shows a url-created material and an uploaded one
C5_Witness ==
    /\ ListedMaterials
    /\ \E row \in Listed : <<row.id, "POST /api/materials/url">> \in origin
    /\ \E row \in Listed : Uploaded(row.id) /\ row.has_file /\ row.image_url = Null

ImageRoute == "GET /api/materials/:id/image"
ImagesOf(id) == {mi \in material_images : mi.material_id = id}

\* C6: GET /materials/:id/image answers 404 when the material has no image
\* row, and otherwise the MIME type and bytes of a row of that material
\* whose creation timestamp no other row of that material exceeds.
C6_LatestImage ==
    last.route = ImageRoute /\ ~last.dbfail =>
      IF ImagesOf(last.req.id) = {}
      THEN last.resp.status = 404 /\ last.resp.kind = "text"
      ELSE /\ last.resp.status = 200 /\ last.resp.kind = "binary"
           /\ \E mi \in ImagesOf(last.req.id) :
                /\ \A o \in ImagesOf(last.req.id) : o.created_at <= mi.created_at
                /\ last.resp.data = <<[mime_type |-> mi.mime_type, bytes |-> mi.bytes]>>

\* the image of a material with an older row of other bytes, and rows of
\* another material, was served
C6_Witness ==
    /\ last.route = ImageRoute /\ last.resp.kind = "binary"
    /\ \E old \in ImagesOf(last.req.id) :
         /\ old.bytes # last.resp.data[1].bytes
         /\ \E new \in ImagesOf(last.req.id) : old.created_at < new.created_at
    /\ \E mi \in material_images : mi.material_id # last.req.id

BootstrapRoute == "POST /api/bootstrap"

\* C7: bootstrap is idempotent.  Its steps change no row; when it answers
\* {ok:true} the schema is the full one, from whichever schema it started;
\* on the full schema it changes nothing; and it never fails on a statement
\* the database refuses, only when the database cannot be reached.
C7_BootstrapIdempotent ==
    /\ [](last.route = BootstrapRoute =>
            IF last.resp.ok THEN schema = FullSchema /\ last.resp.status = 200
            ELSE last.resp.error = "connection error")
    /\ [][boot' # boot \/ (last' # last /\ last'.route = BootstrapRoute) =>
            /\ UNCHANGED <<rowvars, seq>>
            /\ schema = FullSchema => schema' = FullSchema]_vars

\* bootstrap has answered {ok:true} on a schema that was already complete
\* and held a material with an image_url
C7_Witness ==
    /\ last.route = BootstrapRoute /\ last.resp.ok
    /\ \E m \in materials : m.image_url # Null

\* C8: POST /labor answers 400 and inserts nothing when worker_name, hours or
\* rate is missing or falsy, 0 included; with the three present and truthy
\* (and the statement succeeding) it answers 201 with the new row.
C8_LaborValidation ==
    /\ last.route = "POST /api/labor" =>
         IF \/ Falsy(last.req.body.worker_name)
            \/ Falsy(last.req.body.hours)
            \/ Falsy(last.req.body.rate)
         THEN last.resp.status = 400 /\ ~last.resp.ok /\ last.issued = <<>>
         ELSE ~last.dbfail =>
                /\ last.resp.status = 201 /\ last.resp.ok
                /\ last.resp.data[1] \in labor
                /\ last.resp.data[1].total
                     = Num(last.req.body.hours.v * last.req.body.rate.v)
    /\ \A row \in labor : ~Falsy(row.worker_name) /\ ~Falsy(row.hours) /\ ~Falsy(row.rate)

\* a labor entry exists and a request with hours = 0 was answered 400
C8_Witness ==
    /\ last.route = "POST /api/labor"
    /\ last.req.body.hours = Num(0)
    /\ last.resp.status = 400
    /\ labor # {}

\* C9: no request issues a statement that updates or deletes a row: every
\* statement is a SELECT, an INSERT, DDL or transaction control.
ReadOrInsert ==
    {"SELECT tasks", "SELECT labor", "SELECT materials", "SELECT material_images",
     "INSERT tasks", "INSERT labor", "INSERT materials", "INSERT material_images",
     "CREATE TABLE", "ALTER TABLE", "BEGIN", "COMMIT", "ROLLBACK"}
C9_OnlyInserts ==
    /\ \A i \in 1..Len(last.issued) : last.issued[i] \in ReadOrInsert
    /\ \A r \in Uploads : \A i \in 1..Len(up[r].issued) : up[r].issued[i] \in ReadOrInsert

\* C10: no material has two image rows, committed or pending, and every
\* image row belongs to a material whose id an upload drew.
C10_OneImagePerMaterial ==
    /\ \A a, b \in material_images \cup PendingImages :
         a.material_id = b.material_id => a = b
    /\ \A mi \in material_images \cup PendingImages : Uploaded(mi.material_id)

\* two uploads are committed, each material with its one image, next to a
\* material created without a file
C10_Witness ==
    /\ Cardinality(material_images) = 2
    /\ Cardinality(Owned(material_images)) = 2
    /\ \E m \in materials : ~Uploaded(m.id)

====
